---- MODULE Spec2Model ----
(***************************************************************************)
(* Model of the sampler-parameter slash commands of src/index.js:          *)
(* enumerateSamplerParameters, the /sampler-get callback and the           *)
(* /sampler-set callback, acting on the controls of #left-nav-panel.       *)
(*                                                                         *)
(* Text is a sequence of one-character strings, so that trimming, case     *)
(* folding, token removal, number parsing and number formatting are        *)
(* computed character by character as the JavaScript built-ins do.         *)
(* A JavaScript number is a record [k, v]: k = "num" with v the value in   *)
(* tenths, or k = "nan" / "inf" / "ninf" (v = 0).                          *)
(***************************************************************************)
EXTENDS Integers, Sequences, FiniteSets, TLC

VARIABLES
    panel,      \* #left-nav-panel: stylesheet display and inline style
    controls,   \* the input elements of the panel, in document order
    call,       \* the last command invocation: arguments and outcome
    pre,        \* panel and controls as they were when that invocation began
    effects,    \* what that invocation did to controls, in program order
    panel0      \* the panel's style before the first invocation

vars == <<panel, controls, call, pre, effects, panel0>>

(***************************************************************************)
(* Text                                                                    *)
(***************************************************************************)

Digits == <<"0", "1", "2", "3", "4", "5", "6", "7", "8", "9">>

\* the value of each decimal digit
ValueOfDigit ==
    [c \in {Digits[d] : d \in 1..Len(Digits)} |->
        (CHOOSE d \in 1..Len(Digits) : Digits[d] = c) - 1]

IsDigit(c) == c \in DOMAIN ValueOfDigit

DigitVal(c) == ValueOfDigit[c]

UpperCase == <<"A", "B", "C", "D", "E", "F", "G", "H", "I", "J", "K", "L", "M",
               "N", "O", "P", "Q", "R", "S", "T", "U", "V", "W", "X", "Y", "Z">>

LowerCase == <<"a", "b", "c", "d", "e", "f", "g", "h", "i", "j", "k", "l", "m",
               "n", "o", "p", "q", "r", "s", "t", "u", "v", "w", "x", "y", "z">>

\* the lower-case letter of each upper-case letter
LowerOf ==
    [c \in {UpperCase[u] : u \in 1..Len(UpperCase)} |->
        LowerCase[CHOOSE u \in 1..Len(UpperCase) : UpperCase[u] = c]]

\* String.prototype.toLowerCase, one character
LowerChar(c) == IF c \in DOMAIN LowerOf THEN LowerOf[c] ELSE c

\* String.prototype.toLowerCase
toLowerCase(s) == [i \in 1..Len(s) |-> LowerChar(s[i])]

IsSpace(c) == c = " "

RECURSIVE trimStart(_)
trimStart(s) ==
    IF s # <<>> /\ IsSpace(Head(s)) THEN trimStart(Tail(s)) ELSE s

RECURSIVE trimEnd(_)
trimEnd(s) ==
    IF s # <<>> /\ IsSpace(s[Len(s)])
    THEN trimEnd(SubSeq(s, 1, Len(s) - 1))
    ELSE s

\* String.prototype.trim
trim(s) == trimEnd(trimStart(s))

\* whether tok occurs in s at position i
OccursAt(s, tok, i) ==
    /\ i >= 1
    /\ i + Len(tok) - 1 <= Len(s)
    /\ SubSeq(s, i, i + Len(tok) - 1) = tok

Contains(s, tok) == \E i \in 1..Len(s) : OccursAt(s, tok, i)

\* String.prototype.replace(tok, ''): the first occurrence only
replaceFirst(s, tok) ==
    IF Contains(s, tok)
    THEN LET i == CHOOSE j \in 1..Len(s) :
                      /\ OccursAt(s, tok, j)
                      /\ \A h \in 1..(j - 1) : ~OccursAt(s, tok, h)
         IN  SubSeq(s, 1, i - 1) \o SubSeq(s, i + Len(tok), Len(s))
    ELSE s

(***************************************************************************)
(* Numbers                                                                 *)
(***************************************************************************)

NaN == [k |-> "nan", v |-> 0]
PosInf == [k |-> "inf", v |-> 0]
NegInf == [k |-> "ninf", v |-> 0]
Num(t) == [k |-> "num", v |-> t]

isNaN(n) == n.k = "nan"
isFinite(n) == n.k = "num"

\* a <= b for numbers that are not NaN
NumLe(a, b) ==
    \/ a.k = "ninf"
    \/ b.k = "inf"
    \/ a.k = "num" /\ b.k = "num" /\ a.v <= b.v

\* Math.max: NaN when either argument is NaN
MathMax(a, b) ==
    IF isNaN(a) \/ isNaN(b) THEN NaN ELSE IF NumLe(a, b) THEN b ELSE a

\* Math.min: NaN when either argument is NaN
MathMin(a, b) ==
    IF isNaN(a) \/ isNaN(b) THEN NaN ELSE IF NumLe(a, b) THEN a ELSE b

\* the longest prefix of s made of digits
RECURSIVE digitPrefix(_)
digitPrefix(s) ==
    IF s # <<>> /\ IsDigit(Head(s))
    THEN <<Head(s)>> \o digitPrefix(Tail(s))
    ELSE <<>>

RECURSIVE digitsValue(_)
digitsValue(s) ==
    IF s = <<>> THEN 0
    ELSE digitsValue(SubSeq(s, 1, Len(s) - 1)) * 10 + DigitVal(s[Len(s)])

InfinityText == <<"I", "n", "f", "i", "n", "i", "t", "y">>

\* the unsigned part of parseFloat: "Infinity", or digits [ "." digits ],
\* or "." digits; what follows the number is ignored. The value is kept to
\* one fractional digit.
parseUnsigned(s) ==
    IF OccursAt(s, InfinityText, 1) THEN PosInf
    ELSE LET ip == digitPrefix(s)
             rest == SubSeq(s, Len(ip) + 1, Len(s))
             fp == IF rest # <<>> /\ Head(rest) = "."
                   THEN digitPrefix(Tail(rest))
                   ELSE <<>>
         IN  IF ip = <<>> /\ fp = <<>> THEN NaN
             ELSE Num(digitsValue(ip) * 10
                      + (IF fp = <<>> THEN 0 ELSE DigitVal(fp[1])))

Negate(n) ==
    CASE n.k = "num" -> Num(0 - n.v)
      [] n.k = "inf" -> NegInf
      [] n.k = "ninf" -> PosInf
      [] OTHER -> NaN

\* parseFloat: leading white space skipped, optional sign, then the number
parseFloat(s) ==
    LET t == trimStart(s)
    IN  IF t = <<>> THEN NaN
        ELSE IF Head(t) = "-" THEN Negate(parseUnsigned(Tail(t)))
        ELSE IF Head(t) = "+" THEN parseUnsigned(Tail(t))
        ELSE parseUnsigned(t)

RECURSIVE natToText(_)
natToText(n) ==
    IF n < 10 THEN <<Digits[n + 1]>>
    ELSE natToText(n \div 10) \o <<Digits[(n % 10) + 1]>>

\* String(number)
numberToString(n) ==
    CASE n.k = "nan" -> <<"N", "a", "N">>
      [] n.k = "inf" -> InfinityText
      [] n.k = "ninf" -> <<"-">> \o InfinityText
      [] OTHER ->
            LET a == IF n.v < 0 THEN 0 - n.v ELSE n.v
                body == natToText(a \div 10)
                          \o (IF a % 10 = 0 THEN <<>>
                              ELSE <<".", Digits[(a % 10) + 1]>>)
            IN  IF n.v < 0 THEN <<"-">> \o body ELSE body

\* String(boolean)
booleanToString(b) ==
    IF b THEN <<"t", "r", "u", "e">> ELSE <<"f", "a", "l", "s", "e">>

(***************************************************************************)
(* The panel and its controls                                              *)
(***************************************************************************)

\* an element that a query found, with its textContent; or no element
El(text) == [present |-> TRUE, textContent |-> text]
NoEl == [present |-> FALSE, textContent |-> <<>>]

\* an ancestor of a control, with the three descendants getTitleParent
\* queries in it; or no such ancestor
Ancestor(text, title, small, label) ==
    [present |-> TRUE, textContent |-> text, rangeBlockTitle |-> title,
     small |-> small, checkboxLabel |-> label]
NoAncestor ==
    [present |-> FALSE, textContent |-> <<>>, rangeBlockTitle |-> NoEl,
     small |-> NoEl, checkboxLabel |-> NoEl]

\* window.getComputedStyle(leftPanel).display: the inline style wins over
\* the style sheets
computedDisplay(p) ==
    IF p.style.display # "" THEN p.style.display ELSE p.cssDisplay

\* a scan that leaves a hidden panel hidden
scanWithoutShowing(p) == p

\* lines 57-61: a hidden panel is laid out, invisibly, for the scan
showForScan(p) ==
    IF computedDisplay(p) = "none"
    THEN [p EXCEPT !.style =
              [opacity |-> "0", visibility |-> "hidden", display |-> "block"]]
    ELSE p

\* lines 100-102
restoreAfterScan(p, leftPanelDisplay) ==
    [p EXCEPT !.style =
         [opacity |-> "", visibility |-> "", display |-> leftPanelDisplay]]

\* offsetHeight / offsetWidth: nothing inside a panel that is not displayed
\* has a layout box
offsetHeight(p, c) == IF computedDisplay(p) = "none" THEN 0 ELSE c.height
offsetWidth(p, c) == IF computedDisplay(p) = "none" THEN 0 ELSE c.width

isVisible(p, c) == offsetHeight(p, c) > 0 /\ offsetWidth(p, c) > 0

\* 'input[type="range"], input[type="checkbox"], input[type="number"]:not([data-for])'
matchesSelector(c) ==
    \/ c.type = "range"
    \/ c.type = "checkbox"
    \/ c.type = "number" /\ ~c.dataFor

Tok_counter == <<"_", "c", "o", "u", "n", "t", "e", "r">>
Tok_textgenerationwebui ==
    <<"_", "t", "e", "x", "t", "g", "e", "n", "e", "r", "a", "t", "i", "o", "n",
      "w", "e", "b", "u", "i">>
Tok_openai == <<"_", "o", "p", "e", "n", "a", "i">>
Tok_novel == <<"_", "n", "o", "v", "e", "l">>
Tok_openai_ == <<"o", "p", "e", "n", "a", "i", "_">>
Tok_oai_ == <<"o", "a", "i", "_">>

sanitizeId(id) ==
    replaceFirst(
        replaceFirst(
            replaceFirst(
                replaceFirst(
                    replaceFirst(
                        replaceFirst(id, Tok_counter),
                        Tok_textgenerationwebui),
                    Tok_openai),
                Tok_novel),
            Tok_openai_),
        Tok_oai_)

HasText(e) == e.present /\ trim(e.textContent) # <<>>

\* getTitleParent: the element whose text names the control
getTitleParent(c) ==
    LET parent == IF c.closest.rangeBlock.present THEN c.closest.rangeBlock
                  ELSE IF c.closest.label.present THEN c.closest.label
                  ELSE IF c.closest.h4.present THEN c.closest.h4
                  ELSE c.closest.div
    IN  IF ~parent.present THEN NoEl
        ELSE IF HasText(parent.rangeBlockTitle) THEN parent.rangeBlockTitle
        ELSE IF HasText(parent.small) THEN parent.small
        ELSE IF HasText(parent.checkboxLabel) THEN parent.checkboxLabel
        ELSE El(parent.textContent)

\* getTitleParent(control)?.textContent?.trim(); undefined and '' are both
\* falsy at line 93 and are both the empty text here
titleOf(c) ==
    LET e == getTitleParent(c)
    IN  IF e.present THEN trim(e.textContent) ELSE <<>>

\* lines 82-91; control is the position of the live element in the panel
samplerOf(cs, i) ==
    [id |-> sanitizeId(cs[i].id),
     name |-> titleOf(cs[i]),
     max |-> parseFloat(cs[i].max),
     min |-> parseFloat(cs[i].min),
     value |-> parseFloat(cs[i].value),
     checked |-> cs[i].checked,
     type |-> cs[i].type,
     control |-> i]

\* lines 65-98: the scan of the controls from position i on, in document
\* order; every element the selector yields is an HTMLInputElement, so the
\* test of line 71 never skips one
RECURSIVE scanFrom(_, _, _)
scanFrom(p, cs, i) ==
    IF i > Len(cs) THEN <<>>
    ELSE LET sampler == samplerOf(cs, i)
             keep == /\ matchesSelector(cs[i])
                     /\ isVisible(p, cs[i])
                     /\ ~cs[i].inOpenaiSettings
                     /\ sampler.id # <<>>
                     /\ sampler.name # <<>>
         IN  (IF keep THEN <<sampler>> ELSE <<>>) \o scanFrom(p, cs, i + 1)

\* enumerateSamplerParameters: the list returned and the panel it leaves
enumerateSamplerParameters(p, cs) ==
    LET leftPanelDisplay == computedDisplay(p)
        shown == showForScan(p)
    IN  [samplerParameters |-> scanFrom(shown, cs, 1),
         leftPanel |-> restoreAfterScan(shown, leftPanelDisplay)]

(***************************************************************************)
(* The commands                                                            *)
(***************************************************************************)

\* JavaScript values passed as arguments: undefined, a string, or a number
\* (s is its text)
Undefined == [t |-> "undefined", s |-> <<>>]
Str(s) == [t |-> "string", s |-> s]
NumberArg(s) == [t |-> "number", s |-> s]

\* a presence test that only knows undefined
isUndefinedOnly(x) == x.t = "undefined"

\* !x
isFalsy(x) ==
    \/ x.t = "undefined"
    \/ x.t = "string" /\ x.s = <<>>
    \/ x.t = "number" /\ parseFloat(x.s) \in {Num(0), NaN}

\* the messages thrown; the not-found message also quotes the name
ErrNameRequired == "Parameter name is required."
ErrNameNotString == "Parameter name must be a string."
ErrNotFound == "Parameter not found."
ErrValueRequired == "Value is required."
ErrValueNotString == "Value must be a string."
ErrNotFinite == "Value must be convertible to a finite number."
NoError == ""

\* a match by inclusion instead of equality
matchesNameByInclusion(sampler, name) ==
    Contains(toLowerCase(sampler.name), name)
        \/ Contains(toLowerCase(sampler.id), name)

\* p => p.name.toLowerCase() === name || p.id.toLowerCase() === name
matchesName(sampler, name) ==
    toLowerCase(sampler.name) = name \/ toLowerCase(sampler.id) = name

\* a search that keeps the last match
findLastParameter(samplers, name) ==
    IF \E k \in 1..Len(samplers) : matchesName(samplers[k], name)
    THEN CHOOSE k \in 1..Len(samplers) :
             /\ matchesName(samplers[k], name)
             /\ \A j \in (k + 1)..Len(samplers) : ~matchesName(samplers[j], name)
    ELSE 0

\* Array.prototype.find: the position of the first match, 0 for undefined
findParameter(samplers, name) ==
    IF \E k \in 1..Len(samplers) : matchesName(samplers[k], name)
    THEN CHOOSE k \in 1..Len(samplers) :
             /\ matchesName(samplers[k], name)
             /\ \A j \in 1..(k - 1) : ~matchesName(samplers[j], name)
    ELSE 0

\* name.trim().toLowerCase()
normalizeName(s) == toLowerCase(trim(s))

\* isTrueBoolean of the host's utils.js: the trimmed, lower-cased text is one
\* of the truthy tokens
TrueTokens == {<<"t", "r", "u", "e">>, <<"o", "n">>, <<"1">>}
isTrueBoolean(s) == toLowerCase(trim(s)) \in TrueTokens

\* isFalseBoolean of the host's utils.js, imported and not used
FalseTokens == {<<"f", "a", "l", "s", "e">>, <<"o", "f", "f">>, <<"0">>}

\* a checkbox that is set unless the text is a falsy token
checkedUnlessFalse(value) == toLowerCase(trim(value)) \notin FalseTokens

\* isTrueBoolean(String(value)) === true
checkedFor(value) == isTrueBoolean(value) = TRUE

\* a test that lets the infinities through
rejectsOnlyNaN(number) == isNaN(number)

\* isNaN(number) || !isFinite(number)
rejectsNumber(number) == isNaN(number) \/ ~isFinite(number)

\* Math.min(Math.max(number, parameter.min), parameter.max)
clampNumber(number, min, max) == MathMin(MathMax(number, min), max)

\* a reply that formats the value whatever the type
textOfValue(sampler) == numberToString(sampler.value)

\* line 128
textOfParameter(sampler) ==
    IF sampler.type = "checkbox"
    THEN booleanToString(sampler.checked)
    ELSE numberToString(sampler.value)

Outcome(p, cs, err, res, samplers, found, eff) ==
    [panel |-> p, controls |-> cs, error |-> err, result |-> res,
     params |-> samplers, found |-> found, effects |-> eff]

\* the /sampler-get callback
samplerGet(p, cs, name) ==
    IF isFalsy(name)
    THEN Outcome(p, cs, ErrNameRequired, <<>>, <<>>, 0, <<>>)
    ELSE IF name.t # "string"
    THEN Outcome(p, cs, ErrNameNotString, <<>>, <<>>, 0, <<>>)
    ELSE LET e == enumerateSamplerParameters(p, cs)
             list == e.samplerParameters
             k == findParameter(list, normalizeName(name.s))
         IN  IF k = 0
             THEN Outcome(e.leftPanel, cs, ErrNotFound, <<>>, list, 0, <<>>)
             ELSE Outcome(e.leftPanel, cs, NoError, textOfParameter(list[k]),
                          list, list[k].control, <<>>)

\* lines 164-176: the write to the matched control and the input event; the
\* control keeps the text assigned to it
writeParameter(cs, parameter, value) ==
    LET i == parameter.control
    IN  IF parameter.type = "checkbox"
        THEN [error |-> NoError,
              controls |-> [cs EXCEPT ![i].checked = checkedFor(value)],
              effects |-> <<[op |-> "checked", control |-> i],
                            [op |-> "input", control |-> i]>>]
        ELSE LET number == parseFloat(value)
             IN  IF rejectsNumber(number)
                 THEN [error |-> ErrNotFinite, controls |-> cs, effects |-> <<>>]
                 ELSE [error |-> NoError,
                       controls |->
                           [cs EXCEPT ![i].value =
                                numberToString(clampNumber(
                                    number, parameter.min, parameter.max))],
                       effects |-> <<[op |-> "value", control |-> i],
                                     [op |-> "input", control |-> i]>>]

\* the /sampler-set callback
samplerSet(p, cs, name, value) ==
    IF isFalsy(name)
    THEN Outcome(p, cs, ErrNameRequired, <<>>, <<>>, 0, <<>>)
    ELSE IF name.t # "string"
    THEN Outcome(p, cs, ErrNameNotString, <<>>, <<>>, 0, <<>>)
    ELSE LET e == enumerateSamplerParameters(p, cs)
             list == e.samplerParameters
             k == findParameter(list, normalizeName(name.s))
         IN  IF k = 0
             THEN Outcome(e.leftPanel, cs, ErrNotFound, <<>>, list, 0, <<>>)
             ELSE IF isFalsy(value)
             THEN Outcome(e.leftPanel, cs, ErrValueRequired, <<>>, list,
                          list[k].control, <<>>)
             ELSE IF value.t # "string"
             THEN Outcome(e.leftPanel, cs, ErrValueNotString, <<>>, list,
                          list[k].control, <<>>)
             ELSE LET w == writeParameter(cs, list[k], value.s)
                  IN  Outcome(e.leftPanel, w.controls, w.error, <<>>, list,
                              list[k].control, w.effects)

(***************************************************************************)
(* The panels and arguments explored                                       *)
(***************************************************************************)

MaxControls == 3

Txt_Temperature == <<"T", "e", "m", "p", "e", "r", "a", "t", "u", "r", "e">>
Txt_Randomness == <<" ", "R", "a", "n", "d", "o", "m", "n", "e", "s", "s", " ">>
Txt_DoSample == <<"D", "o", " ", "S", "a", "m", "p", "l", "e">>
Txt_Seed == <<"S", "e", "e", "d">>
Txt_Context == <<"C", "o", "n", "t", "e", "x", "t">>
Txt_TopA == <<"T", "o", "p", " ", "A">>
Txt_XTC == <<"X", "T", "C">>
Txt_Blank == <<" ", " ">>

RangeBlock(title) == Ancestor(title, El(title), NoEl, NoEl)

Closest(rangeBlock, label, h4, div) ==
    [rangeBlock |-> rangeBlock, label |-> label, h4 |-> h4, div |-> div]

Control(type, dataFor, id, min, max, value, checked, w, h, inOpenai, closest) ==
    [type |-> type, dataFor |-> dataFor, id |-> id, min |-> min, max |-> max,
     value |-> value, checked |-> checked, width |-> w, height |-> h,
     inOpenaiSettings |-> inOpenai, closest |-> closest]

\* controls as the host page lays them out, in document order
Pool ==
    << \* a slider in a titled range block
       Control("range", FALSE, <<"t", "e", "m", "p", "_", "o", "p", "e", "n", "a", "i">>,
               <<"0">>, <<"2">>, <<"1">>, FALSE, 120, 20, FALSE,
               Closest(RangeBlock(Txt_Temperature), NoAncestor, NoAncestor, NoAncestor)),
       \* its companion number display
       Control("number", TRUE, <<"t", "e", "m", "p", "_", "c", "o", "u", "n", "t", "e", "r", "_", "o", "p", "e", "n", "a", "i">>,
               <<"0">>, <<"2">>, <<"1">>, FALSE, 40, 20, FALSE,
               Closest(RangeBlock(Txt_Temperature), NoAncestor, NoAncestor, NoAncestor)),
       \* another backend's slider with the same canonical id, captioned by a small
       Control("range", FALSE, <<"t", "e", "m", "p", "_", "n", "o", "v", "e", "l">>,
               <<"-", "2">>, <<"1">>, <<"0", ".", "7">>, FALSE, 120, 20, FALSE,
               Closest(NoAncestor, NoAncestor, NoAncestor,
                       Ancestor(Txt_Randomness, NoEl, El(Txt_Randomness), NoEl))),
       \* a checkbox in a label
       Control("checkbox", FALSE, <<"d", "o", "_", "s", "a", "m", "p", "l", "e", "_", "t", "e", "x", "t", "g", "e", "n", "e", "r", "a", "t", "i", "o", "n", "w", "e", "b", "u", "i">>,
               <<>>, <<>>, <<"o", "n">>, FALSE, 16, 16, FALSE,
               Closest(NoAncestor,
                       Ancestor(Txt_DoSample, El(Txt_Blank), NoEl, El(Txt_DoSample)),
                       NoAncestor, NoAncestor)),
       \* a plain number input with a lower bound and no upper bound
       Control("number", FALSE, <<"s", "e", "e", "d", "_", "t", "e", "x", "t", "g", "e", "n", "e", "r", "a", "t", "i", "o", "n", "w", "e", "b", "u", "i">>,
               <<"-", "1">>, <<>>, <<"-", "1">>, FALSE, 80, 20, FALSE,
               Closest(NoAncestor, NoAncestor, Ancestor(Txt_Seed, NoEl, NoEl, NoEl),
                       NoAncestor)),
       \* a slider of the excluded settings section
       Control("range", FALSE, <<"o", "p", "e", "n", "a", "i", "_", "m", "a", "x", "_", "c", "o", "n", "t", "e", "x", "t">>,
               <<"0">>, <<"8">>, <<"4">>, FALSE, 120, 20, TRUE,
               Closest(RangeBlock(Txt_Context), NoAncestor, NoAncestor, NoAncestor)),
       \* a slider of a collapsed block: no layout box
       Control("range", FALSE, <<"t", "o", "p", "_", "a">>,
               <<"0">>, <<"1">>, <<"0", ".", "5">>, FALSE, 120, 0, FALSE,
               Closest(RangeBlock(Txt_TopA), NoAncestor, NoAncestor, NoAncestor)),
       \* a slider whose identifier has capitals and an inner oai_
       Control("range", FALSE, <<"X", "T", "C", "_", "o", "a", "i", "_", "p", "r", "o", "b">>,
               <<"0">>, <<"1">>, <<"0", ".", "5">>, FALSE, 120, 20, FALSE,
               Closest(RangeBlock(Txt_XTC), NoAncestor, NoAncestor, NoAncestor)),
       \* a checkbox whose label holds only white space
       Control("checkbox", FALSE, <<"s", "t", "r", "e", "a", "m", "_", "o", "p", "e", "n", "a", "i">>,
               <<>>, <<>>, <<"o", "n">>, TRUE, 16, 16, FALSE,
               Closest(NoAncestor, Ancestor(Txt_Blank, NoEl, NoEl, NoEl),
                       NoAncestor, NoAncestor)),
       \* a number input whose identifier is only a stripped token
       Control("number", FALSE, <<"_", "c", "o", "u", "n", "t", "e", "r">>,
               <<"0">>, <<"9">>, <<"3">>, FALSE, 40, 20, FALSE,
               Closest(NoAncestor, NoAncestor, NoAncestor,
                       Ancestor(Txt_Seed, NoEl, NoEl, NoEl))) >>

\* the panels explored: up to MaxControls consecutive controls of the page
Panels ==
    { SubSeq(Pool, a, a + n - 1) :
          <<a, n>> \in { <<a, n>> \in (1..Len(Pool)) \X (1..MaxControls) :
                              a + n - 1 <= Len(Pool) } }

Style(display, visibility, opacity) ==
    [display |-> display, visibility |-> visibility, opacity |-> opacity]

\* the panel open or closed, by a style sheet or by an inline style, and
\* with an inline opacity or visibility of the host's own
PanelStates ==
    { [cssDisplay |-> "flex", style |-> Style("", "", "")],
      [cssDisplay |-> "none", style |-> Style("", "", "")],
      [cssDisplay |-> "flex", style |-> Style("none", "", "")],
      [cssDisplay |-> "none", style |-> Style("none", "", "0.5")],
      [cssDisplay |-> "flex", style |-> Style("block", "visible", "")] }

NameArgs ==
    { Undefined, Str(<<>>), NumberArg(<<"5">>),
      Str(<<"r", "a", "n", "d">>), Str(<<" ", "T", "E", "M", "P", " ">>), Str(<<"T", "e", "m", "p", "e", "r", "a", "t", "u", "r", "e">>),
      Str(<<"r", "a", "n", "d", "o", "m", "n", "e", "s", "s">>), Str(<<"D", "O", " ", "S", "A", "M", "P", "L", "E">>),
      Str(<<"S", "E", "E", "D">>), Str(<<"x", "t", "c", "_", "p", "r", "o", "b">>),
      Str(<<"m", "i", "s", "s", "i", "n", "g">>) }

ValueArgs ==
    { Undefined, Str(<<>>), NumberArg(<<"0">>), NumberArg(<<"7">>),
      Str(<<"1", ".", "1">>), Str(<<"5">>), Str(<<"-", "3">>),
      Str(<<"a", "b", "c">>), Str(<<"I", "n", "f", "i", "n", "i", "t", "y">>),
      Str(<<"t", "r", "u", "e">>), Str(<<"n", "o">>), Str(<<" ", "O", "N", " ">>) }

(***************************************************************************)
(* The state machine                                                       *)
(***************************************************************************)

NoCall ==
    [cmd |-> "none", name |-> Undefined, value |-> Undefined, error |-> NoError,
     result |-> <<>>, params |-> <<>>, found |-> 0]

Init ==
    /\ panel \in PanelStates
    /\ controls \in Panels
    /\ call = NoCall
    /\ pre = [panel |-> panel, controls |-> controls]
    /\ effects = <<>>
    /\ panel0 = panel

\* a command runs to completion before the next one starts; the record of
\* it is kept until the host takes its result
Idle == call.cmd = "none"

Finish(cmd, name, value, o) ==
    /\ panel' = o.panel
    /\ controls' = o.controls
    /\ call' = [cmd |-> cmd, name |-> name, value |-> value, error |-> o.error,
                result |-> o.result, params |-> o.params, found |-> o.found]
    /\ pre' = [panel |-> panel, controls |-> controls]
    /\ effects' = o.effects
    /\ UNCHANGED panel0

\* a direct call of enumerateSamplerParameters
Enumerate ==
    /\ Idle
    /\ LET e == enumerateSamplerParameters(panel, controls)
       IN  Finish("enumerate", Undefined, Undefined,
                  Outcome(e.leftPanel, controls, NoError, <<>>,
                          e.samplerParameters, 0, <<>>))

SamplerGet ==
    /\ Idle
    /\ \E name \in NameArgs :
           Finish("sampler-get", name, Undefined,
                  samplerGet(panel, controls, name))

SamplerSet ==
    /\ Idle
    /\ \E name \in NameArgs, value \in ValueArgs :
           Finish("sampler-set", name, value,
                  samplerSet(panel, controls, name, value))

\* the host takes the result or the error of the command
Return ==
    /\ ~Idle
    /\ call' = NoCall
    /\ pre' = [panel |-> panel, controls |-> controls]
    /\ effects' = <<>>
    /\ UNCHANGED <<panel, controls, panel0>>

Next == Enumerate \/ SamplerGet \/ SamplerSet \/ Return

Spec == Init /\ [][Next]_vars

(***************************************************************************)
(* Properties                                                              *)
(***************************************************************************)

InvalidArgumentErrors ==
    {ErrNameRequired, ErrNameNotString, ErrValueRequired, ErrValueNotString}

\* an argument that is present and a string
IsGivenString(x) == x.t = "string" /\ x.s # <<>>

IsCommand == call.cmd \in {"sampler-get", "sampler-set"}

\* the invocation got as far as the lookup
LookedUp == IsCommand /\ IsGivenString(call.name)

Key == toLowerCase(trim(call.name.s))

Matches(k) ==
    toLowerCase(call.params[k].name) = Key \/ toLowerCase(call.params[k].id) = Key

NoMatch == \A k \in 1..Len(call.params) : ~Matches(k)

\* nothing was written to any control and no event was dispatched
NothingDone == controls = pre.controls /\ effects = <<>>

\* a sampler-set that found a parameter of the given kind and was handed a
\* present string value
SetOn(types) ==
    /\ call.cmd = "sampler-set"
    /\ LookedUp
    /\ call.found # 0
    /\ pre.controls[call.found].type \in types
    /\ IsGivenString(call.value)

InputEvents == {j \in 1..Len(effects) : effects[j].op = "input"}

\* exactly one input event, on control i, after the write to control i
OneEventAfterWrite(i, op) ==
    effects = <<[op |-> op, control |-> i], [op |-> "input", control |-> i]>>

\* C1: a successful sampler-set on a range or number parameter with a value
\* that parses to a finite number v leaves the control's value at v clamped
\* into [min, max] (v when min <= v <= max, min when v < min, max when
\* v > max), so within the bounds, and dispatches exactly one change
\* notification on the control after the write.
C1_ClampedIntoBounds ==
    (SetOn({"range", "number"}) /\ isFinite(parseFloat(call.value.s))
         /\ call.error = NoError)
    => LET c == controls[call.found]
           v == parseFloat(call.value.s)
           lo == parseFloat(c.min)
           hi == parseFloat(c.max)
           now == parseFloat(c.value)
       IN  /\ isFinite(now)
           /\ (isFinite(lo) => now.v >= lo.v)
           /\ (isFinite(hi) => now.v <= hi.v)
           /\ ((isFinite(lo) /\ v.v < lo.v) => now = lo)
           /\ ((isFinite(hi) /\ v.v > hi.v) => now = hi)
           /\ ((~(isFinite(lo) /\ v.v < lo.v) /\ ~(isFinite(hi) /\ v.v > hi.v))
                   => now = v)
           /\ OneEventAfterWrite(call.found, "value")

\* C2: after any sequence of enumerate, sampler-get and sampler-set calls the
\* panel's display, visibility and opacity are what they were before the
\* first call.
C2_PanelStyleAsBefore ==
    /\ computedDisplay(panel) = computedDisplay(panel0)
    /\ panel.style.visibility = panel0.style.visibility
    /\ panel.style.opacity = panel0.style.opacity

\* C3: sampler-set on a range or number parameter with a value whose parse
\* is not-a-number or not finite fails with the not-a-finite-number error,
\* changes no control and dispatches nothing.
C3_NonFiniteRejected ==
    (SetOn({"range", "number"}) /\ ~isFinite(parseFloat(call.value.s)))
    => call.error = ErrNotFinite /\ NothingDone

C3_Witness ==
    /\ SetOn({"range", "number"})
    /\ call.value = Str(InfinityText)
    /\ call.error = ErrNotFinite

\* C4: when no enumerated parameter's lower-cased name or id equals the
\* trimmed, lower-cased input, sampler-get and sampler-set fail with the
\* not-found error, change no control and dispatch nothing.
C4_NotFoundNoEffect ==
    (LookedUp /\ NoMatch) => call.error = ErrNotFound /\ NothingDone

C4_Witness ==
    /\ call.cmd = "sampler-set"
    /\ call.name = Str(<<"r", "a", "n", "d">>)
    /\ IsGivenString(call.value)
    /\ call.error = ErrNotFound
    /\ \E k \in 1..Len(call.params) : call.params[k].name = <<"R", "a", "n", "d", "o", "m", "n", "e", "s", "s">>

\* C5 as stated: sampler-set fails with an invalid-argument error whenever
\* the name or the value is absent or not a string, whatever the other
\* argument and whether or not the name matches a parameter; sampler-get
\* whenever its name is absent or not a string; nothing is mutated.
C5_InvalidArgumentAlways ==
    /\ (call.cmd = "sampler-set"
            /\ (~IsGivenString(call.name) \/ ~IsGivenString(call.value)))
       => call.error \in InvalidArgumentErrors /\ NothingDone
    /\ (call.cmd = "sampler-get" /\ ~IsGivenString(call.name))
       => call.error \in InvalidArgumentErrors /\ NothingDone

\* C5 amended: an absent or non-string name fails with an invalid-argument
\* error in both commands, whatever the value; an absent or non-string
\* value fails with one when the name matches a parameter, and with the
\* not-found error when the name is a string that matches none; nothing is
\* mutated in any of these cases.
C5_InvalidArgumentAfterLookup ==
    /\ (IsCommand /\ ~IsGivenString(call.name))
       => /\ call.error \in {ErrNameRequired, ErrNameNotString}
          /\ NothingDone
          /\ panel = pre.panel
    /\ (call.cmd = "sampler-set" /\ LookedUp /\ ~IsGivenString(call.value))
       => /\ call.error = (IF NoMatch THEN ErrNotFound
                           ELSE IF call.value \in {Undefined, Str(<<>>), NumberArg(<<"0">>)}
                                THEN ErrValueRequired ELSE ErrValueNotString)
          /\ NothingDone

C5_Witness ==
    /\ call.cmd = "sampler-set"
    /\ LookedUp
    /\ ~NoMatch
    /\ call.value.t = "number"
    /\ call.error = ErrValueNotString

\* C6: the lookup is case-insensitive and by name or id alike: the parameter
\* selected is the first one in enumeration order whose lower-cased name or
\* id equals the trimmed, lower-cased input, and the command reads or
\* writes that parameter's control and no other.
C6_FirstMatchOnly ==
    (LookedUp /\ ~NoMatch)
    => /\ \E k \in 1..Len(call.params) :
              /\ Matches(k)
              /\ \A j \in 1..(k - 1) : ~Matches(j)
              /\ call.found = call.params[k].control
       /\ \A i \in 1..Len(controls) : i # call.found => controls[i] = pre.controls[i]
       /\ \A j \in 1..Len(effects) : effects[j].control = call.found
       /\ (call.cmd = "sampler-get" /\ controls[call.found].type # "checkbox")
              => parseFloat(call.result) = parseFloat(controls[call.found].value)

C6_Witness ==
    /\ call.cmd = "sampler-set"
    /\ call.name = Str(<<" ", "T", "E", "M", "P", " ">>)
    /\ call.error = NoError
    /\ Len(call.params) >= 2
    /\ Matches(1) /\ Matches(2)
    /\ call.found = call.params[1].control
    /\ controls[call.found] # pre.controls[call.found]

\* text of the form [-]digits[.digits]
IsDecimalText(t) ==
    LET body == IF t # <<>> /\ Head(t) = "-" THEN Tail(t) ELSE t
        ip == digitPrefix(body)
        rest == SubSeq(body, Len(ip) + 1, Len(body))
    IN  /\ ip # <<>>
        /\ \/ rest = <<>>
           \/ /\ Head(rest) = "."
              /\ Len(rest) >= 2
              /\ digitPrefix(Tail(rest)) = Tail(rest)

C8_CheckboxNeverFails ==
    SetOn({"checkbox"})
    => /\ call.error = NoError
       /\ controls[call.found].checked = (toLowerCase(trim(call.value.s)) \in TrueTokens)
       /\ call.value.s = <<"t", "r", "u", "e">> => controls[call.found].checked
       /\ call.value.s \in {<<"n", "o">>, <<"a", "b", "c">>, <<"1", ".", "1">>}
              => ~controls[call.found].checked
       /\ controls[call.found].value = pre.controls[call.found].value
       /\ OneEventAfterWrite(call.found, "checked")

C8_Witness ==
    /\ SetOn({"checkbox"})
    /\ call.value = Str(<<"n", "o">>)
    /\ pre.controls[call.found].checked
    /\ ~controls[call.found].checked

\* a control the scan must report: of a selected kind, laid out with a
\* non-zero box, outside the excluded section, with a name and an id
Eligible(c) ==
    /\ \/ c.type \in {"range", "checkbox"}
       \/ c.type = "number" /\ ~c.dataFor
    /\ c.width > 0 /\ c.height > 0
    /\ ~c.inOpenaiSettings
    /\ titleOf(c) # <<>>
    /\ sanitizeId(c.id) # <<>>

Enumerated == call.cmd = "enumerate" \/ LookedUp

\* C9: the list returned holds, in scan order, exactly one entry for each
\* eligible control and no entry for any other control.
C9_ExactlyTheEligible ==
    Enumerated
    => /\ \A k \in 1..Len(call.params) : call.params[k].control \in 1..Len(controls)
       /\ \A j, k \in 1..Len(call.params) :
              j < k => call.params[j].control < call.params[k].control
       /\ \A i \in 1..Len(controls) :
              (\E k \in 1..Len(call.params) : call.params[k].control = i)
                  <=> Eligible(pre.controls[i])

C9_Witness ==
    /\ call.cmd = "enumerate"
    /\ computedDisplay(pre.panel) = "none"
    /\ Len(call.params) = 2
    /\ Len(controls) = 3

StrippedTokens == {Tok_counter, Tok_textgenerationwebui, Tok_openai, Tok_novel}

LeadingTokens == {Tok_openai_, Tok_oai_}

\* C10: every id returned is all lower case, holds none of the stripped
\* tokens, and has lost openai_ / oai_ only where they led the identifier.
C10_CanonicalId ==
    Enumerated
    => \A k \in 1..Len(call.params) :
           LET id == call.params[k].id
               raw == pre.controls[call.params[k].control].id
           IN  /\ toLowerCase(id) = id
               /\ \A tok \in StrippedTokens : ~Contains(id, tok)
               /\ \A tok \in LeadingTokens :
                      (Contains(raw, tok) /\ ~OccursAt(raw, tok, 1))
                          => Contains(id, tok)

====
